---- MODULE Spec2Model ----
(***************************************************************************)
(* Model of src/src/utils/api.js: the client facade (a shared axios        *)
(* instance with a response interceptor and seven exported operations)     *)
(* and the forwarding handler (a catch-all proxy route).                   *)
(*                                                                         *)
(* JavaScript values are modelled as follows.  A string is a TLA+ string.  *)
(* An object is a record.  A value that may be undefined is a record with  *)
(* a field "defined".  A number of seconds is an integer number of tenths  *)
(* of a second, so that 0.5 is 5.                                          *)
(***************************************************************************)
EXTENDS Integers, Sequences, FiniteSets, TLC

(***************************************************************************)
(* Bounds of the model.                                                    *)
(***************************************************************************)
\* Number of client invocations that may be in flight at once.
NumCalls == 2
\* Largest transitionDuration (in tenths of a second) a caller supplies.
MaxDuration == 2

Calls == 1..NumCalls

(***************************************************************************)
(* JavaScript helpers.                                                     *)
(***************************************************************************)
Undefined == [defined |-> FALSE]
Def(v) == [defined |-> TRUE, val |-> v]

\* String.prototype.includes
Includes(s, sub) ==
    \E k \in 1..(Len(s) - Len(sub) + 1) : SubSeq(s, k, k + Len(sub) - 1) = sub

(***************************************************************************)
(* Configuration of the client (api.js lines 4-17).                        *)
(***************************************************************************)
BACKEND_URL == "https://backend-footage-flow.onrender.com"
ApiTimeout == 30000
UploadTimeout == 120000
\* 0.5 seconds, in tenths of a second
DefaultTransitionDuration == 5

(***************************************************************************)
(* The transport (axios).  A call settles with a response whose status is  *)
(* 2xx, or with an AxiosError.  An AxiosError carries a message, a code    *)
(* and, when the backend answered, the response.                           *)
(***************************************************************************)
NoResponse == [present |-> FALSE]
Response(status, data) == [present |-> TRUE, status |-> status, data |-> data]

AxiosError(message, code, response) ==
    [name |-> "AxiosError", message |-> message, code |-> code, response |-> response]

\* new Error(message): no code, no response
NewError(message) ==
    [name |-> "Error", message |-> message, code |-> Undefined, response |-> NoResponse]

\* error.response?.status
StatusOf(error) ==
    IF error.response.present THEN Def(error.response.status) ELSE Undefined

\* error.response?.data?.error
DataErrorOf(error) ==
    IF error.response.present /\ "error" \in DOMAIN error.response.data
    THEN Def(error.response.data.error)
    ELSE Undefined

\* truthiness of a string that may be undefined
TruthyString(v) == v.defined /\ v.val # ""

EmptyObject == [k \in {} |-> ""]
SuccessBodies == {[text |-> "hello"], EmptyObject}
ErrorBodies == {[error |-> "bad video"], [error |-> ""], EmptyObject}
\* statuses of the backend's error answers
FailStatuses == {404, 408, 413, 500}

StatusMessage(status) ==
    CASE status = 0   -> "Request failed with status code 0"
      [] status = 404 -> "Request failed with status code 404"
      [] status = 408 -> "Request failed with status code 408"
      [] status = 413 -> "Request failed with status code 413"
      [] status = 500 -> "Request failed with status code 500"

\* axios settle(): the code is chosen by the status class
StatusCode(status) ==
    IF status \div 100 = 4 THEN Def("ERR_BAD_REQUEST")
    ELSE IF status \div 100 = 5 THEN Def("ERR_BAD_RESPONSE")
    ELSE Undefined

HttpFailure(status, data) ==
    AxiosError(StatusMessage(status), StatusCode(status), Response(status, data))

NetworkFailure == AxiosError("Network Error", Def("ERR_NETWORK"), NoResponse)

TimeoutMessage(ms) ==
    IF ms = ApiTimeout THEN "timeout of 30000ms exceeded"
    ELSE "timeout of 120000ms exceeded"

TimeoutFailure(ms) == AxiosError(TimeoutMessage(ms), Def("ECONNABORTED"), NoResponse)

AbortFailure == AxiosError("Request aborted", Def("ECONNABORTED"), NoResponse)

\* a response of status 0 (a failed preflight) has no body to speak of
PreflightFailure == HttpFailure(0, EmptyObject)

\* the failures a call with the given timeout can settle with
TransportFailures(ms) ==
    {NetworkFailure, TimeoutFailure(ms), AbortFailure, PreflightFailure}
        \cup {HttpFailure(s, d) : s \in FailStatuses, d \in ErrorBodies}

TransportSuccesses == {Response(200, d) : d \in SuccessBodies}

Fulfilled(v) == [ok |-> TRUE, value |-> v]
Rejected(e) == [ok |-> FALSE, error |-> e]
Pending == [ok |-> FALSE, pending |-> TRUE]

\* every way the transport settles a call with the given timeout
AllSettlements(ms) ==
    {Fulfilled(r) : r \in TransportSuccesses}
        \cup {Rejected(e) : e \in TransportFailures(ms)}

\* one settlement of each kind: a response, a timeout, an error answer the
\* interceptor passes on, and one it replaces
CoreSettlements(ms) ==
    {Fulfilled(Response(200, [text |-> "hello"])),
     Rejected(TimeoutFailure(ms)),
     Rejected(HttpFailure(404, [error |-> "bad video"])),
     Rejected(HttpFailure(500, [error |-> "bad video"]))}


(***************************************************************************)
(* State of the client facade.  Every invocation i of an exported          *)
(* operation is an asynchronous unit of work of its own.                   *)
(***************************************************************************)
VARIABLES
    pc,          \* pc[i]: "idle", "awaiting", "responded", "intercepted", "done"
    op,          \* op[i]: the exported operation invocation i runs
    opts,        \* opts[i]: options.transitionDuration of a renderVideo call
    sent,        \* sent[i]: the outbound calls invocation i has issued
    settlement,  \* settlement[i]: how the transport settled the call
    chain,       \* chain[i]: the settlement after the response interceptor
    outcomes     \* outcomes[i]: the terminal outcomes the caller observed

clientVars == <<pc, op, opts, sent, settlement, chain, outcomes>>

(***************************************************************************)
(* State of the forwarding handler while it serves one inbound request.    *)
(***************************************************************************)
VARIABLES
    hpc,         \* "idle", "fetching", "fetched", "done"
    inbound,     \* the inbound request (req)
    fetched,     \* the outbound calls, as <<url, fetchOptions>>
    fetchResult, \* how fetch settled
    responses,   \* the responses sent through res
    escaped      \* an exception left the handler

proxyVars == <<hpc, inbound, fetched, fetchResult, responses, escaped>>

vars == <<clientVars, proxyVars>>

(***************************************************************************)
(* The response interceptor of the shared instance (api.js lines 33-71).   *)
(***************************************************************************)
MsgCannotConnect ==
    "Cannot connect to server. Please check if the backend is running and CORS is configured."
MsgCors == "CORS error. Backend is not accepting requests from this domain."
MsgTimedOut ==
    "Request timed out. Please try with a smaller file or check your connection."
MsgServerError == "Server error. The backend service may be experiencing issues."

\* ResponseErrorHandler with the server-error test written status > 500
ResponseErrorHandler_Above500(error) ==
    IF error.code = Def("ERR_NETWORK") THEN NewError(MsgCannotConnect)
    ELSE IF StatusOf(error) = Def(0) THEN NewError(MsgCors)
    ELSE IF StatusOf(error) = Def(408) \/ error.code = Def("ECONNABORTED")
         THEN NewError(MsgTimedOut)
    ELSE IF StatusOf(error).defined /\ StatusOf(error).val > 500
         THEN NewError(MsgServerError)
    ELSE error

\* the error handler: the value the returned promise rejects with
ResponseErrorHandler(error) ==
    IF error.code = Def("ERR_NETWORK") THEN NewError(MsgCannotConnect)
    ELSE IF StatusOf(error) = Def(0) THEN NewError(MsgCors)
    ELSE IF StatusOf(error) = Def(408) \/ error.code = Def("ECONNABORTED")
         THEN NewError(MsgTimedOut)
    ELSE IF StatusOf(error).defined /\ StatusOf(error).val >= 500
         THEN NewError(MsgServerError)
    ELSE error

\* both handlers of api.interceptors.response.use
ResponseInterceptor(s) ==
    IF s.ok THEN Fulfilled(s.value) ELSE Rejected(ResponseErrorHandler(s.error))

(***************************************************************************)
(* Requests.                                                               *)
(***************************************************************************)
\* a call through the shared instance: baseURL, 30 s timeout, interceptors
ApiRequest(method, path, data) ==
    [client |-> "api", method |-> method, url |-> BACKEND_URL \o path,
     data |-> data, timeout |-> ApiTimeout]

\* options.transitionDuration || 0.5
TransitionDurationOf(o) ==
    IF o.defined /\ o.val # 0 THEN o.val ELSE DefaultTransitionDuration

DurationOptions == {Undefined} \cup {Def(d) : d \in 0..MaxDuration}

NoData == [none |-> TRUE]

Issue(i, name, o, request) ==
    /\ pc' = [pc EXCEPT ![i] = "awaiting"]
    /\ op' = [op EXCEPT ![i] = name]
    /\ opts' = [opts EXCEPT ![i] = o]
    /\ sent' = [sent EXCEPT ![i] = Append(@, request)]
    /\ UNCHANGED <<settlement, chain, outcomes>>
    /\ UNCHANGED proxyVars

Finish(i, outcome) ==
    /\ pc' = [pc EXCEPT ![i] = "done"]
    /\ outcomes' = [outcomes EXCEPT ![i] = Append(@, outcome)]
    /\ UNCHANGED <<op, opts, sent, settlement, chain>>
    /\ UNCHANGED proxyVars

(***************************************************************************)
(* The transport settles an outstanding call; then, for a call through     *)
(* the shared instance, the response interceptor runs.                     *)
(***************************************************************************)
TransportSettle(i, settlements) ==
    /\ pc[i] = "awaiting"
    /\ \E s \in settlements : settlement' = [settlement EXCEPT ![i] = s]
    /\ pc' = [pc EXCEPT ![i] = "responded"]
    /\ UNCHANGED <<op, opts, sent, chain, outcomes>>
    /\ UNCHANGED proxyVars

Intercept(i) ==
    /\ pc[i] = "responded"
    /\ sent[i][Len(sent[i])].client = "api"
    /\ chain' = [chain EXCEPT ![i] = ResponseInterceptor(settlement[i])]
    /\ pc' = [pc EXCEPT ![i] = "intercepted"]
    /\ UNCHANGED <<op, opts, sent, settlement, outcomes>>
    /\ UNCHANGED proxyVars

(***************************************************************************)
(* uploadVideo (api.js lines 76-111): a call through the global axios,     *)
(* which has no interceptor.                                               *)
(***************************************************************************)
MsgUploadNetwork == "Network error. Cannot connect to server."
MsgFileTooLarge == "File too large. Please use a smaller video file."

uploadVideo(i) ==
    /\ pc[i] = "idle"
    /\ Issue(i, "uploadVideo", Undefined,
             [client |-> "axios", method |-> "post", url |-> BACKEND_URL \o "/upload",
              data |-> [formData |-> TRUE], timeout |-> UploadTimeout])

\* UploadVideoCatch as it would be were the upload sent through the shared
\* instance: the interceptor's classification comes first
UploadVideoCatch_Intercepted(error) ==
    LET e == ResponseErrorHandler(error)
    IN  IF e.code = Def("ERR_NETWORK") THEN NewError(MsgUploadNetwork)
        ELSE IF StatusOf(e) = Def(413) THEN NewError(MsgFileTooLarge)
        ELSE e

UploadVideoCatch(error) ==
    IF error.code = Def("ERR_NETWORK") THEN NewError(MsgUploadNetwork)
    ELSE IF StatusOf(error) = Def(413) THEN NewError(MsgFileTooLarge)
    ELSE error

uploadVideoResume(i) ==
    /\ pc[i] = "responded"
    /\ op[i] = "uploadVideo"
    /\ Finish(i, IF settlement[i].ok
                 THEN Fulfilled(settlement[i].value)
                 ELSE Rejected(UploadVideoCatch(settlement[i].error)))

(***************************************************************************)
(* transcribeVideo (api.js lines 114-136).                                 *)
(***************************************************************************)
MsgTranscriptionTimedOut == "Transcription timed out. Please try with a shorter video."
MsgTranscriptionFailed == "Transcription failed. Please try again."

transcribeVideo(i) ==
    /\ pc[i] = "idle"
    /\ Issue(i, "transcribeVideo", Undefined,
             ApiRequest("post", "/transcribe-direct-video", [videoId |-> "abc"]))

TranscribeVideoCatch(error) ==
    IF Includes(error.message, "timeout") THEN NewError(MsgTranscriptionTimedOut)
    ELSE IF TruthyString(DataErrorOf(error)) THEN NewError(DataErrorOf(error).val)
    ELSE NewError(MsgTranscriptionFailed)

transcribeVideoResume(i) ==
    /\ pc[i] = "intercepted"
    /\ op[i] = "transcribeVideo"
    /\ Finish(i, IF chain[i].ok
                 THEN Fulfilled(chain[i].value.data)
                 ELSE Rejected(TranscribeVideoCatch(chain[i].error)))

(***************************************************************************)
(* generateStory, renderVideo, searchVideo, testCORS, healthCheck          *)
(* (api.js lines 139-219): return response.data, rethrow the error.        *)
(***************************************************************************)
\* Rethrow wrapping the failure in a new Error: status and body are lost
Rethrow_Wrapped(error) == NewError(error.message)

Rethrow(error) == error

ReturnDataOrRethrow(s) ==
    IF s.ok THEN Fulfilled(s.value.data) ELSE Rejected(Rethrow(s.error))

generateStory(i) ==
    /\ pc[i] = "idle"
    /\ Issue(i, "generateStory", Undefined,
             ApiRequest("post", "/generate-story",
                        [videoId |-> "v1", prompt |-> "a story", mode |-> "normal"]))

\* generateStoryResume re-issuing a failed call
generateStoryResume_Retry(i) ==
    /\ pc[i] = "intercepted"
    /\ op[i] = "generateStory"
    /\ IF chain[i].ok
       THEN Finish(i, ReturnDataOrRethrow(chain[i]))
       ELSE /\ pc' = [pc EXCEPT ![i] = "awaiting"]
            /\ sent' = [sent EXCEPT ![i] = Append(@, sent[i][1])]
            /\ UNCHANGED <<op, opts, settlement, chain, outcomes>>
            /\ UNCHANGED proxyVars

generateStoryResume(i) ==
    /\ pc[i] = "intercepted"
    /\ op[i] = "generateStory"
    /\ Finish(i, ReturnDataOrRethrow(chain[i]))

renderVideo(i) ==
    /\ pc[i] = "idle"
    /\ \E o \in DurationOptions :
          Issue(i, "renderVideo", o,
                ApiRequest("post", "/render-story",
                           [videoId |-> "v1", scenes |-> <<"s1", "s2">>,
                            transitionDuration |-> TransitionDurationOf(o)]))

renderVideoResume(i) ==
    /\ pc[i] = "intercepted"
    /\ op[i] = "renderVideo"
    /\ Finish(i, ReturnDataOrRethrow(chain[i]))

searchVideo(i) ==
    /\ pc[i] = "idle"
    /\ Issue(i, "searchVideo", Undefined,
             ApiRequest("post", "/search", [videoId |-> "v1", query |-> "dog"]))

searchVideoResume(i) ==
    /\ pc[i] = "intercepted"
    /\ op[i] = "searchVideo"
    /\ Finish(i, ReturnDataOrRethrow(chain[i]))

testCORS(i) ==
    /\ pc[i] = "idle"
    /\ Issue(i, "testCORS", Undefined, ApiRequest("get", "/cors-test", NoData))

testCORSResume(i) ==
    /\ pc[i] = "intercepted"
    /\ op[i] = "testCORS"
    /\ Finish(i, ReturnDataOrRethrow(chain[i]))

healthCheck(i) ==
    /\ pc[i] = "idle"
    /\ Issue(i, "healthCheck", Undefined, ApiRequest("get", "/health", NoData))

healthCheckResume(i) ==
    /\ pc[i] = "intercepted"
    /\ op[i] = "healthCheck"
    /\ Finish(i, ReturnDataOrRethrow(chain[i]))

ClientInit ==
    /\ pc = [i \in Calls |-> "idle"]
    /\ op = [i \in Calls |-> "none"]
    /\ opts = [i \in Calls |-> Undefined]
    /\ sent = [i \in Calls |-> <<>>]
    /\ settlement = [i \in Calls |-> Pending]
    /\ chain = [i \in Calls |-> Pending]
    /\ outcomes = [i \in Calls |-> <<>>]

\* the timeout of the call invocation i awaits
TimeoutOf(i) == sent[i][Len(sent[i])].timeout

ClientCall(i) ==
    \/ uploadVideo(i)
    \/ transcribeVideo(i)
    \/ generateStory(i)
    \/ renderVideo(i)
    \/ searchVideo(i)
    \/ testCORS(i)
    \/ healthCheck(i)

ClientResume(i) ==
    \/ Intercept(i)
    \/ uploadVideoResume(i)
    \/ transcribeVideoResume(i)
    \/ generateStoryResume(i)
    \/ renderVideoResume(i)
    \/ searchVideoResume(i)
    \/ testCORSResume(i)
    \/ healthCheckResume(i)

(***************************************************************************)
(* The forwarding handler (api.js lines 222-250).                          *)
(***************************************************************************)
\* Largest number of segments of the wildcard path parameter.
MaxSegments == 2

PROXY_ORIGIN == "http://footage-flow-env.eba-92jebm7b.ap-south-1.elasticbeanstalk.com"

\* JSON values, as the hosting runtime parses an inbound body and as the
\* backend serializes its answer
JsonNull == [t |-> "null"]
JsonString(str) == [t |-> "string", s |-> str]
JsonObject(key, str) == [t |-> "object", k |-> key, v |-> str]
JsonEmptyObject == [t |-> "object0"]
JsonValues ==
    {JsonNull, JsonString(""), JsonEmptyObject,
     JsonObject("videoId", "v1"), JsonObject("error", "not found")}

Quote(str) == "\"" \o str \o "\""

\* JSON.stringify
JSONStringify(value) ==
    CASE value.t = "null"    -> "null"
      [] value.t = "string"  -> Quote(value.s)
      [] value.t = "object0" -> "{}"
      [] value.t = "object"  -> "{" \o Quote(value.k) \o ":" \o Quote(value.v) \o "}"

\* response.json(): the parsed value, or the SyntaxError it throws
JSONParse(text) ==
    IF \E value \in JsonValues : JSONStringify(value) = text
    THEN [completed |-> TRUE,
          value |-> CHOOSE value \in JsonValues : JSONStringify(value) = text]
    ELSE [completed |-> FALSE,
          exception |-> [message |-> IF text = ""
                                     THEN "Unexpected end of JSON input"
                                     ELSE "Unexpected token < in JSON at position 0"]]

\* Array.prototype.join
RECURSIVE Join(_, _)
Join(array, sep) ==
    IF array = <<>> THEN ""
    ELSE IF Len(array) = 1 THEN array[1]
    ELSE array[1] \o sep \o Join(Tail(array), sep)

Segments == {"a", "b"}
RECURSIVE ArraysUpTo(_)
ArraysUpTo(n) ==
    IF n = 0 THEN {<<>>}
    ELSE ArraysUpTo(n - 1)
            \cup {Append(a, seg) : a \in ArraysUpTo(n - 1), seg \in Segments}

\* req.query.proxy: absent, one segment, or a non-empty array of segments
ProxyParams ==
    {[kind |-> "undefined"]}
        \cup {[kind |-> "string", seg |-> seg] : seg \in Segments}
        \cup {[kind |-> "array", segs |-> a] : a \in ArraysUpTo(MaxSegments) \ {<<>>}}

Methods == {"GET", "HEAD", "POST", "PUT", "DELETE"}
InboundHeaders == [authorization |-> "Bearer token", cookie |-> "session=1"]

InboundRequests ==
    {[method |-> m, query |-> [proxy |-> p], body |-> b, headers |-> InboundHeaders] :
        m \in Methods, p \in ProxyParams, b \in {JsonNull, JsonObject("videoId", "v1")}}

\* Array.isArray(proxy) ? proxy.join('/') : proxy, then `${path}`
PathOf(proxy) ==
    IF proxy.kind = "array" THEN Join(proxy.segs, "/")
    ELSE IF proxy.kind = "string" THEN proxy.seg
    ELSE "undefined"

BackendUrl(req) == PROXY_ORIGIN \o "/" \o PathOf(req.query.proxy)

JsonContentType == [h \in {"Content-Type"} |-> "application/json"]

\* FetchOptions with the HEAD test forgotten
FetchOptions_BodyOnHead(req) ==
    IF req.method # "GET"
    THEN [method |-> req.method, headers |-> JsonContentType,
          body |-> JSONStringify(req.body)]
    ELSE [method |-> req.method, headers |-> JsonContentType]

FetchOptions(req) ==
    IF req.method # "GET" /\ req.method # "HEAD"
    THEN [method |-> req.method, headers |-> JsonContentType,
          body |-> JSONStringify(req.body)]
    ELSE [method |-> req.method, headers |-> JsonContentType]

\* what fetch settles with: a response of any status with its body text, or
\* a rejection
BackendStatuses == {200, 404, 500}
BackendTexts == {JSONStringify(value) : value \in JsonValues} \cup {"<html>Bad Gateway</html>", ""}
FetchSettlements ==
    {Fulfilled([status |-> st, text |-> tx]) : st \in BackendStatuses, tx \in BackendTexts}
        \cup {Rejected([message |-> "fetch failed"])}

\* the try block after fetch settles: the response sent, or the exception
TryRelay(s) ==
    IF ~s.ok THEN [completed |-> FALSE, exception |-> s.error]
    ELSE LET data == JSONParse(s.value.text)
         IN  IF data.completed
             THEN [completed |-> TRUE,
                   response |-> [status |-> s.value.status, body |-> data.value]]
             ELSE [completed |-> FALSE, exception |-> data.exception]

\* CatchRespond without the catch: the exception leaves the handler
CatchRespond_Uncaught(error) == [completed |-> FALSE, exception |-> error]

\* the catch block
CatchRespond(error) ==
    [completed |-> TRUE,
     response |-> [status |-> 500,
                   body |-> [error |-> "Backend connection failed",
                             details |-> error.message]]]

\* lines 241-249: try, and on an exception catch
RelayOrCatch(s) ==
    IF TryRelay(s).completed THEN TryRelay(s) ELSE CatchRespond(TryRelay(s).exception)

\* lines 222-240: up to the await of fetch
handler ==
    /\ hpc = "idle"
    /\ \E req \in InboundRequests :
          /\ inbound' = req
          /\ fetched' = Append(fetched, <<BackendUrl(req), FetchOptions(req)>>)
    /\ hpc' = "fetching"
    /\ UNCHANGED <<fetchResult, responses, escaped>>
    /\ UNCHANGED clientVars

FetchSettle ==
    /\ hpc = "fetching"
    /\ \E s \in FetchSettlements : fetchResult' = s
    /\ hpc' = "fetched"
    /\ UNCHANGED <<inbound, fetched, responses, escaped>>
    /\ UNCHANGED clientVars

\* lines 241-249: after fetch settled
handlerResume ==
    /\ hpc = "fetched"
    /\ LET result == RelayOrCatch(fetchResult)
       IN  IF result.completed
           THEN /\ responses' = Append(responses, result.response)
                /\ UNCHANGED escaped
           ELSE /\ escaped' = TRUE
                /\ UNCHANGED responses
    /\ hpc' = "done"
    /\ UNCHANGED <<inbound, fetched, fetchResult>>
    /\ UNCHANGED clientVars

NoRequest == [none |-> TRUE]

ProxyInit ==
    /\ hpc = "idle"
    /\ inbound = NoRequest
    /\ fetched = <<>>
    /\ fetchResult = Pending
    /\ responses = <<>>
    /\ escaped = FALSE

(***************************************************************************)
(* Specifications.  Spec: the client facade with NumCalls invocations in   *)
(* flight, each call settling in one of the core ways.  OneCallSpec: the   *)
(* client facade, one invocation, its call settling in any way.            *)
(* ProxySpec: the forwarding handler.                                      *)
(***************************************************************************)
Init == ClientInit /\ ProxyInit

Next ==
    \E i \in Calls :
        \/ ClientCall(i)
        \/ TransportSettle(i, CoreSettlements(TimeoutOf(i)))
        \/ ClientResume(i)
Spec == Init /\ [][Next]_vars

OneCallNext ==
    \/ ClientCall(1)
    \/ TransportSettle(1, AllSettlements(TimeoutOf(1)))
    \/ ClientResume(1)
OneCallSpec == Init /\ [][OneCallNext]_vars

ProxyNext == handler \/ FetchSettle \/ handlerResume
ProxySpec == Init /\ [][ProxyNext]_vars

(***************************************************************************)
(* Properties.                                                             *)
(***************************************************************************)
IsTimeoutSignal(e) == e.code = Def("ECONNABORTED")
HasStatus(e, status) == e.response.present /\ e.response.status = status

Rule1(e) == e.code = Def("ERR_NETWORK") /\ ~e.response.present
Rule2(e) == HasStatus(e, 0)
Rule3(e) == HasStatus(e, 408) \/ IsTimeoutSignal(e)
Rule4(e) == e.response.present /\ e.response.status >= 500
MatchesSomeRule(e) == Rule1(e) \/ Rule2(e) \/ Rule3(e) \/ Rule4(e)

FirstRuleMessage(e) ==
    CASE Rule1(e) ->
           "Cannot connect to server. Please check if the backend is running and CORS is configured."
      [] ~Rule1(e) /\ Rule2(e) ->
           "CORS error. Backend is not accepting requests from this domain."
      [] ~Rule1(e) /\ ~Rule2(e) /\ Rule3(e) ->
           "Request timed out. Please try with a smaller file or check your connection."
      [] ~Rule1(e) /\ ~Rule2(e) /\ ~Rule3(e) /\ Rule4(e) ->
           "Server error. The backend service may be experiencing issues."

ThroughApi(i) == pc[i] # "idle" /\ sent[i][1].client = "api"
Intercepted(i) == ThroughApi(i) /\ pc[i] \in {"intercepted", "done"}
Failed(i) == pc[i] \in {"responded", "intercepted", "done"} /\ ~settlement[i].ok
Succeeded(i) == pc[i] \in {"responded", "intercepted", "done"} /\ settlement[i].ok
Done(i, name) == pc[i] = "done" /\ op[i] = name
ThrewMessage(i, message) ==
    /\ Len(outcomes[i]) = 1
    /\ ~outcomes[i][1].ok
    /\ outcomes[i][1].error.message = message

\* C1: every failed call through the shared instance that matches one of the
\* four rules of the response interceptor is rejected with the fixed message
\* of the first rule, in the order network, status 0, 408/timeout, >= 500,
\* that it matches.
C1_FirstMatchingRuleDecides ==
    \A i \in Calls :
        (Intercepted(i) /\ Failed(i) /\ MatchesSomeRule(settlement[i].error)) =>
            /\ ~chain[i].ok
            /\ chain[i].error.message = FirstRuleMessage(settlement[i].error)

\* a status-500 failure, which matches rule 4 and no earlier rule, was rejected
\* with the server-error message
C1_Witness ==
    \E i \in Calls :
        /\ Intercepted(i) /\ Failed(i)
        /\ HasStatus(settlement[i].error, 500)
        /\ chain[i].error.message = "Server error. The backend service may be experiencing issues."

\* C2: a failed transcribeVideo call whose response body carries a non-empty
\* error field, whatever its status, and whose failure message does not contain
\* "timeout", throws exactly that error field.
C2_BackendErrorSurfacedVerbatim ==
    \A i \in Calls :
        (/\ Done(i, "transcribeVideo") /\ Failed(i)
         /\ TruthyString(DataErrorOf(settlement[i].error))
         /\ ~Includes(settlement[i].error.message, "timeout")) =>
            ThrewMessage(i, settlement[i].error.response.data.error)

\* C3: a transcribeVideo call that fails with the transport's timeout, whose
\* message contains "timeout", throws the transcription-timed-out message.
C3_TimeoutThrowsTranscriptionTimedOut ==
    \A i \in Calls :
        (/\ Done(i, "transcribeVideo") /\ Failed(i)
         /\ IsTimeoutSignal(settlement[i].error)
         /\ Includes(settlement[i].error.message, "timeout")) =>
            ThrewMessage(i, "Transcription timed out. Please try with a shorter video.")

\* C4: a failed uploadVideo throws "Network error..." on a transport network
\* failure, otherwise "File too large..." on status 413, and otherwise the
\* very failure value the transport produced.
C4_UploadFailureMapping ==
    \A i \in Calls :
        (Done(i, "uploadVideo") /\ Failed(i)) =>
            LET e == settlement[i].error
            IN  IF e.code = Def("ERR_NETWORK")
                THEN ThrewMessage(i, "Network error. Cannot connect to server.")
                ELSE IF HasStatus(e, 413)
                THEN ThrewMessage(i, "File too large. Please use a smaller video file.")
                ELSE outcomes[i] = <<Rejected(e)>>

\* an upload that timed out threw the transport's own failure value
C4_Witness ==
    \E i \in Calls :
        /\ Done(i, "uploadVideo") /\ Failed(i)
        /\ IsTimeoutSignal(settlement[i].error)
        /\ outcomes[i] = <<Rejected(settlement[i].error)>>
        /\ outcomes[i][1].error.name = "AxiosError"

\* C5: the body renderVideo sends has transitionDuration 0.5 when the option
\* is omitted and the caller's value, 0 included, when it is supplied.
C5_TransitionDurationSent ==
    \A i \in Calls :
        (pc[i] # "idle" /\ op[i] = "renderVideo") =>
            sent[i][1].data.transitionDuration =
                (IF opts[i].defined THEN opts[i].val ELSE 5)

PassThroughOps == {"generateStory", "renderVideo", "searchVideo", "testCORS", "healthCheck"}

\* C8: generateStory, renderVideo, searchVideo, testCORS and healthCheck return
\* the response body on success, throw what the shared instance rejected with
\* on failure, and throw the transport's own failure value when the failure
\* matches none of the four rules.
C8_PassThrough ==
    \A i \in Calls :
        (pc[i] = "done" /\ op[i] \in PassThroughOps) =>
            /\ Succeeded(i) => outcomes[i] = <<Fulfilled(settlement[i].value.data)>>
            /\ Failed(i) => outcomes[i] = <<Rejected(chain[i].error)>>
            /\ (Failed(i) /\ ~MatchesSomeRule(settlement[i].error)) =>
                   outcomes[i] = <<Rejected(settlement[i].error)>>

\* generateStory threw a 404 failure with its status and body intact
C8_Witness ==
    \E i \in Calls :
        /\ Done(i, "generateStory") /\ Failed(i)
        /\ HasStatus(settlement[i].error, 404)
        /\ outcomes[i][1].error.response = Response(404, [error |-> "bad video"])

\* C10: every invocation issues exactly one outbound call and reaches at most
\* one terminal outcome, exactly one once it is done; no call is issued twice;
\* and two invocations of the same operation with the same arguments whose
\* calls settled alike have the same outcome, however they interleave.
C10_OneCallOneOutcome ==
    /\ \A i \in Calls :
          /\ Len(sent[i]) = (IF pc[i] = "idle" THEN 0 ELSE 1)
          /\ Len(outcomes[i]) = (IF pc[i] = "done" THEN 1 ELSE 0)
    /\ \A i, j \in Calls :
          (/\ pc[i] = "done" /\ pc[j] = "done"
           /\ op[i] = op[j] /\ opts[i] = opts[j]
           /\ settlement[i] = settlement[j]) =>
              outcomes[i] = outcomes[j]

\* two invocations of the same operation are done, one returned and the other
\* threw
C10_Witness ==
    \E i, j \in Calls :
        /\ i # j
        /\ pc[i] = "done" /\ pc[j] = "done"
        /\ op[i] = op[j]
        /\ outcomes[i][1].ok /\ ~outcomes[j][1].ok

(***************************************************************************)
(* Properties of the forwarding handler.                                   *)
(***************************************************************************)
ErrorEnvelope(message) ==
    [status |-> 500, body |-> [error |-> "Backend connection failed", details |-> message]]

IsJsonText(text) == \E value \in JsonValues : JSONStringify(value) = text

\* C6: the handler sends exactly one response and lets no exception escape:
\* the backend's status and parsed JSON body when dispatch and parsing
\* succeed, and otherwise status 500 with the fixed envelope carrying the
\* exception's message.
C6_AlwaysOneResponse ==
    /\ ~escaped
    /\ Len(responses) = (IF hpc = "done" THEN 1 ELSE 0)
    /\ hpc = "done" =>
          IF fetchResult.ok /\ IsJsonText(fetchResult.value.text)
          THEN /\ responses[1].status = fetchResult.value.status
               /\ JSONStringify(responses[1].body) = fetchResult.value.text
          ELSE IF fetchResult.ok
          THEN responses[1] = ErrorEnvelope(JSONParse(fetchResult.value.text).exception.message)
          ELSE responses[1] = ErrorEnvelope(fetchResult.error.message)

\* the backend answered with a body that is not JSON and the handler
\* responded with the 500 envelope
C6_Witness ==
    /\ hpc = "done"
    /\ fetchResult.ok
    /\ fetchResult.value.text = "<html>Bad Gateway</html>"
    /\ responses = <<ErrorEnvelope("Unexpected token < in JSON at position 0")>>

RECURSIVE SlashPath(_)
SlashPath(segs) ==
    IF segs = <<>> THEN "" ELSE "/" \o Head(segs) \o SlashPath(Tail(segs))

SegmentsOf(proxy) == IF proxy.kind = "array" THEN proxy.segs ELSE <<proxy.seg>>

\* C7: for an inbound request with method M and path segments s1..sn the one
\* outbound call goes to <origin>/s1/.../sn with method M and the single
\* header Content-Type: application/json, and carries the JSON-serialized
\* inbound body exactly when M is neither GET nor HEAD.
C7_OutboundCall ==
    (hpc # "idle" /\ inbound.query.proxy.kind # "undefined") =>
        /\ Len(fetched) = 1
        /\ fetched[1][1] = PROXY_ORIGIN \o SlashPath(SegmentsOf(inbound.query.proxy))
        /\ fetched[1][2].method = inbound.method
        /\ DOMAIN fetched[1][2].headers = {"Content-Type"}
        /\ fetched[1][2].headers["Content-Type"] = "application/json"
        /\ ("body" \in DOMAIN fetched[1][2]) <=> (inbound.method \notin {"GET", "HEAD"})
        /\ ("body" \in DOMAIN fetched[1][2]) =>
               fetched[1][2].body = JSONStringify(inbound.body)

\* a HEAD request for a/b was forwarded without a body
C7_Witness ==
    /\ hpc # "idle"
    /\ inbound.method = "HEAD"
    /\ inbound.query.proxy = [kind |-> "array", segs |-> <<"a", "b">>]
    /\ fetched[1][1] = PROXY_ORIGIN \o "/a/b"
    /\ DOMAIN fetched[1][2] = {"method", "headers"}

\* C9: without a wildcard path parameter the outbound call is dispatched to
\* exactly <origin>/.
C9_MissingPathTargetsOriginSlash ==
    (hpc # "idle" /\ inbound.query.proxy.kind = "undefined") =>
        /\ Len(fetched) = 1
        /\ fetched[1][1] = PROXY_ORIGIN \o "/"

====
